---- MODULE Spec2Model ----
(***************************************************************************)
(* Model of the Spartan Read Aloud pipeline (Code.js, Gemini.js): the      *)
(* ledger sheet "Assessment Database", the Drive folders holding the       *)
(* source PDFs and the generated audio, the three processing steps and     *)
(* the serving entry point getAssessmentPdf.                               *)
(*                                                                         *)
(* A JavaScript string is modelled as a sequence of one-character strings, *)
(* so that trimming, case folding, splitting and truncation are computed.  *)
(***************************************************************************)
EXTENDS Integers, Sequences, FiniteSets, TLC

\* ------------------------------------------------------------------ text

Whitespace == {" ", "\n", "\t"}

UpperCase == <<"A", "B", "C", "D", "E", "F", "G", "H", "I", "J", "K", "L", "M",
               "N", "O", "P", "Q", "R", "S", "T", "U", "V", "W", "X", "Y", "Z">>

LowerCase == <<"a", "b", "c", "d", "e", "f", "g", "h", "i", "j", "k", "l", "m",
               "n", "o", "p", "q", "r", "s", "t", "u", "v", "w", "x", "y", "z">>

Digit == <<"0", "1", "2", "3", "4", "5", "6", "7", "8", "9">>

Range(f) == {f[k] : k \in DOMAIN f}

\* \w of a JavaScript regular expression: [A-Za-z0-9_]
WordChar == Range(UpperCase) \cup Range(LowerCase) \cup Range(Digit) \cup {"_"}

\* [a-zA-Z0-9_-], the characters of a Drive file id in getFileIdFromUrl
IdChar == WordChar \cup {"-"}

SetMin(S) == CHOOSE x \in S : \A y \in S : x <= y

SetMax(S) == CHOOSE x \in S : \A y \in S : y <= x

\* String.prototype.substring(from, to) with 0-based from, exclusive to
substring(s, from, to) == SubSeq(s, from + 1, IF to < Len(s) THEN to ELSE Len(s))

\* String.prototype.toLowerCase
toLowerCase[s \in Seq(STRING)] ==
  [k \in 1..Len(s) |->
     IF \E n \in 1..26 : UpperCase[n] = s[k]
     THEN LowerCase[CHOOSE n \in 1..26 : UpperCase[n] = s[k]]
     ELSE s[k]]

\* String.prototype.trim
trim[s \in Seq(STRING)] ==
  LET keep == {k \in 1..Len(s) : s[k] \notin Whitespace}
  IN IF keep = {} THEN <<>> ELSE SubSeq(s, SetMin(keep), SetMax(keep))

\* String.prototype.split(c) for a one-character separator
splitChar[s \in Seq(STRING), c \in STRING] ==
  LET at == {k \in 1..Len(s) : s[k] = c}
  IN IF at = {} THEN <<s>>
     ELSE LET p == SetMin(at)
          IN <<SubSeq(s, 1, p - 1)>> \o splitChar[SubSeq(s, p + 1, Len(s)), c]

\* the text after the leading whitespace run
dropWhitespace[s \in Seq(STRING)] ==
  IF s # <<>> /\ Head(s) \in Whitespace THEN dropWhitespace[Tail(s)] ELSE s

\* String.prototype.split(/\s+/)
splitWhitespace[s \in Seq(STRING)] ==
  LET at == {k \in 1..Len(s) : s[k] \in Whitespace}
  IN IF at = {} THEN <<s>>
     ELSE LET p == SetMin(at)
          IN <<SubSeq(s, 1, p - 1)>>
               \o splitWhitespace[dropWhitespace[SubSeq(s, p, Len(s))]]

\* Array.prototype.join
join[parts \in Seq(Seq(STRING)), sep \in Seq(STRING)] ==
  IF parts = <<>> THEN <<>>
  ELSE IF Len(parts) = 1 THEN parts[1]
  ELSE parts[1] \o sep \o join[Tail(parts), sep]

\* replace(/\s+/g, '-')
hyphenate[s \in Seq(STRING)] ==
  LET marked == [k \in 1..Len(s) |->
                   IF s[k] \notin Whitespace THEN s[k]
                   ELSE IF k > 1 /\ s[k - 1] \in Whitespace THEN ""
                   ELSE "-"]
  IN SelectSeq(marked, LAMBDA c : c # "")

\* decimal rendering of a non-negative integer in a template literal
decimal[n \in Nat] ==
  IF n < 10 THEN <<Digit[n + 1]>> ELSE decimal[n \div 10] \o <<Digit[(n % 10) + 1]>>

MAX_NAME_LENGTH == 250

\* `-chunk-${ordinal}.wav`
ChunkSuffix(ordinal) ==
  <<"-", "c", "h", "u", "n", "k", "-">> \o decimal[ordinal] \o <<".", "w", "a", "v">>

generateSafeFilenameFromText(text, chunkIndex) ==
  LET words == splitWhitespace[text]
      firstWords == join[SubSeq(words, 1, IF Len(words) < 6 THEN Len(words) ELSE 6),
                         <<" ">>]
      kept == SelectSeq(firstWords,
                        LAMBDA c : c \in WordChar \cup Whitespace \cup {"-"})
      sanitized == hyphenate[kept]
      fullName == sanitized \o ChunkSuffix(chunkIndex + 1)
  IN substring(fullName, 0, MAX_NAME_LENGTH)

\* url.match(/\/d\/([a-zA-Z0-9_-]+)/): the id after the first "/d/" that is
\* followed by an id character; <<>> stands for null
getFileIdFromUrl[url \in Seq(STRING)] ==
  LET at == {k \in 1..(Len(url) - 3) :
               /\ url[k] = "/" /\ url[k + 1] = "d" /\ url[k + 2] = "/"
               /\ url[k + 3] \in IdChar}
  IN IF at = {} THEN <<>>
     ELSE LET p == SetMin(at) + 3
              stop == {k \in p..Len(url) : url[k] \notin IdChar}
          IN SubSeq(url, p, IF stop = {} THEN Len(url) ELSE SetMin(stop) - 1)

\* ----------------------------------------------------------------- Drive

PDF == "application/pdf"

F1 == <<"f", "1">>

F2 == <<"f", "2">>

G1 == <<"g", "1">>

\* The files of the Drive: two PDFs whose names have the same stem, and one
\* file that is not a PDF.
DriveFiles ==
  { [id |-> F1, name |-> <<"a", ".", "p", "d", "f">>, mimeType |-> PDF],
    [id |-> F2, name |-> <<"a", ".", "P", "D", "F">>, mimeType |-> PDF],
    [id |-> G1, name |-> <<"n", ".", "t", "x", "t">>, mimeType |-> "text/plain"] }

FileIds == {f.id : f \in DriveFiles}

PdfIds == {f.id : f \in {g \in DriveFiles : g.mimeType = PDF}}

FileById(id) == CHOOSE f \in DriveFiles : f.id = id

\* File.getUrl(): a locator that holds the id after "/d/"
getUrl(id) == <<"/", "d", "/">> \o id \o <<"/">>

\* a locator typed by hand that holds no "/d/<id>"
MalformedUrl == <<"/", "x", "/">>

\* The text OCR reads from a file, as uploaded or after its owner replaced
\* its content.
\*   f1 as uploaded: "1. x\n2. y"     f1 replaced: "1. x"
\*   f2:             "1. x!"
DocText(id, replaced) ==
  IF id = F1
  THEN IF ~replaced
       THEN <<"1", ".", " ", "x", "\n", "2", ".", " ", "y">>
       ELSE <<"1", ".", " ", "x">>
  ELSE IF id = F2 THEN <<"1", ".", " ", "x", "!">>
  ELSE <<"n">>

\* the files whose content the owner may replace
Revisable == {F1}

\* whether /\s*\d+\.\s/ matches the text at position p
ItemStartsAt(text, p) ==
  LET rest == dropWhitespace[SubSeq(text, p, Len(text))]
      nondigit == {k \in 1..Len(rest) : rest[k] \notin Range(Digit)}
  IN /\ nondigit # {}
     /\ SetMin(nondigit) > 1
     /\ rest[SetMin(nondigit)] = "."
     /\ SetMin(nondigit) < Len(rest)
     /\ rest[SetMin(nondigit) + 1] \in Whitespace

\* text.split(/\n(?=\s*\d+\.\s)/)
splitItems[text \in Seq(STRING)] ==
  LET at == {k \in 1..Len(text) : text[k] = "\n" /\ ItemStartsAt(text, k + 1)}
  IN IF at = {} THEN <<text>>
     ELSE LET p == SetMin(at)
          IN <<SubSeq(text, 1, p - 1)>> \o splitItems[SubSeq(text, p + 1, Len(text))]

\* .map(chunk => chunk.trim()).filter(chunk => chunk)
chunksOf(text) ==
  LET parts == splitItems[text]
      trimmed == [k \in 1..Len(parts) |-> trim[parts[k]]]
  IN SelectSeq(trimmed, LAMBDA c : c # <<>>)

\* fileName.replace(/\.pdf$/i, '').trim()
baseNameOf[fileName \in Seq(STRING)] ==
  LET n == Len(fileName)
  IN trim[IF n >= 4 /\ toLowerCase[SubSeq(fileName, n - 3, n)] = <<".", "p", "d", "f">>
          THEN SubSeq(fileName, 1, n - 4)
          ELSE fileName]

\* ---------------------------------------------------------------- ledger

\* COL: one record field per column of the sheet "Assessment Database".
\* A blank cell is 0 in CHUNK_COUNT, "" in IS_COMPLETE and <<>> elsewhere.
\* AUDIO_JSON holds <<entries>>, the serialized array of manifest entries.
BlankRow(url) ==
  [pdfUrl |-> url, chunkCount |-> 0, audioJson |-> <<>>, isComplete |-> "",
   password |-> <<>>, studentEmails |-> <<>>]

HeaderRow == BlankRow(<<"P", "D", "F">>)

\* JSON.stringify of the array of entries / JSON.parse of the cell
JSONstringify(entries) == <<entries>>

JSONparse(cell) == cell[1]

\* `https://drive.google.com/uc?id=${id}&export=media`
audioUrlOf(id) == <<"uc?id=", id, "&export=media">>

VARIABLES
  sheet,               \* the rows of the ledger; sheet[1] is the header row
  pdfFolder,           \* ids of the files in the folder "Assessment PDFs"
  deleted,             \* ids of the files that can no longer be opened
  replaced,            \* ids of the files whose content was replaced
  subfolders,          \* names of the subfolders of "Assessment Audio Files"
  artifacts,           \* the audio files: [folder, id, name] and what each
                       \* was synthesized from: [text, ordinal, source]
  pc,                  \* position of the running invocation, "idle" if none
  chain,               \* the invocation is runAllSteps
  now,                 \* milliseconds since the invocation began
  SCRIPT_START_TIME,   \* step 2's start time
  data,                \* the pass's copy of the sheet (getValues)
  i,                   \* the pass's row index, 0-based as in the code
  textChunks,          \* step 2: the chunks of the row in progress
  j,                   \* step 2: the chunk index, 0-based
  audioFileObjects,    \* step 2: the files resolved so far for the row
  allChunksProcessed,  \* step 2: no chunk of the row failed
  halt,                \* how the last pass ended
  calls,               \* the synthesis calls of the current generation pass:
                       \* [row, chunk, name, ok] and, at the time of the call,
                       \* whether the folder had audio of that chunk
  request,             \* the last getAssessmentPdf request
  response,            \* and its response
  call,                \* the last call of a helper made on its own
  returned             \* and what it returned

driveVars == <<pdfFolder, deleted, replaced, subfolders, artifacts>>

passVars == <<data, i, textChunks, j, audioFileObjects, allChunksProcessed>>

serveVars == <<request, response>>

unitVars == <<call, returned>>

vars == <<sheet, driveVars, pc, chain, now, SCRIPT_START_TIME, passVars, halt,
          calls, serveVars, unitVars>>

SCRIPT_TIMEOUT_MS == 5 * 60 * 1000

\* An external call (OCR, speech synthesis) returns at once or after LongCall
\* milliseconds; an invocation makes at most MaxLongCalls slow calls.
LongCall == 6 * 60 * 1000

MaxLongCalls == 1

Durations == {0, LongCall}

CanTake(d) == now + d <= MaxLongCalls * LongCall

\* rows typed into the sheet by hand before the script first runs
ManualRows == {<<>>, <<BlankRow(MalformedUrl)>>, <<BlankRow(getUrl(G1))>>}

\* Audio of the first item of a.pdf made under the two earlier naming schemes:
\* "a-chunk-1.wav" and "a.pdf-chunk-1.wav" in the subfolder "a".
LegacyFiles ==
  { [folder |-> <<"a">>, id |-> 1, name |-> <<"a">> \o ChunkSuffix(1),
     text |-> <<"1", ".", " ", "x">>, ordinal |-> 0, source |-> F1],
    [folder |-> <<"a">>, id |-> 2, name |-> <<"a", ".", "p", "d", "f">> \o ChunkSuffix(1),
     text |-> <<"1", ".", " ", "x">>, ordinal |-> 0, source |-> F1] }

\* a response of getAssessmentPdf: {error} or {pdfData, fileName, audioChunks}
Failure(message) ==
  [error |-> message, pdfData |-> <<>>, fileName |-> <<>>, audioChunks |-> <<>>]

NoRequest == [sent |-> FALSE, email |-> <<>>, password |-> <<>>]

NoResponse == Failure("")

NoCall == [made |-> FALSE]

Init ==
  /\ sheet \in {<<HeaderRow>> \o rows : rows \in ManualRows}
  /\ pdfFolder = {}
  /\ deleted = {}
  /\ replaced = {}
  /\ artifacts \in {{}, LegacyFiles}
  /\ subfolders = {a.folder : a \in artifacts}
  /\ pc = "idle"
  /\ chain = FALSE
  /\ now = 0
  /\ SCRIPT_START_TIME = 0
  /\ data = <<>>
  /\ i = 0
  /\ textChunks = <<>>
  /\ j = 0
  /\ audioFileObjects = <<>>
  /\ allChunksProcessed = TRUE
  /\ halt = "none"
  /\ calls = <<>>
  /\ request = NoRequest
  /\ response = NoResponse
  /\ call = NoCall
  /\ returned = <<>>

\* ----------------------------------------------------------- environment

\* a PDF is uploaded to the folder "Assessment PDFs"
UploadPdf(id) ==
  /\ id \in PdfIds \ pdfFolder
  /\ id \notin deleted
  /\ pdfFolder' = pdfFolder \cup {id}
  /\ UNCHANGED <<sheet, deleted, replaced, subfolders, artifacts, pc, chain, now,
                 SCRIPT_START_TIME, passVars, halt, calls, serveVars, unitVars>>

\* a file is deleted or unshared: DriveApp.getFileById throws from now on
DeleteFile(id) ==
  /\ id \in pdfFolder \ deleted
  /\ deleted' = deleted \cup {id}
  /\ UNCHANGED <<sheet, pdfFolder, replaced, subfolders, artifacts, pc, chain, now,
                 SCRIPT_START_TIME, passVars, halt, calls, serveVars, unitVars>>

\* the owner replaces the content of a file
ReplaceContent(id) ==
  /\ id \in (Revisable \cap pdfFolder) \ replaced
  /\ replaced' = replaced \cup {id}
  /\ UNCHANGED <<sheet, pdfFolder, deleted, subfolders, artifacts, pc, chain, now,
                 SCRIPT_START_TIME, passVars, halt, calls, serveVars, unitVars>>

\* ----------------------------------------------------------- invocations

Null == <<>>

\* DriveApp.getFileById(id) returns a file (it throws otherwise)
Accessible(id) == id \in FileIds /\ id \notin deleted

ResetLocals ==
  /\ data' = <<>>
  /\ i' = 0
  /\ textChunks' = <<>>
  /\ j' = 0
  /\ audioFileObjects' = <<>>
  /\ allChunksProcessed' = TRUE

\* the menu item 'Run All Steps'
runAllSteps ==
  /\ pc = "idle"
  /\ pc' = "step0"
  /\ chain' = TRUE
  /\ now' = 0
  /\ UNCHANGED <<sheet, driveVars, SCRIPT_START_TIME, passVars, halt, calls, serveVars, unitVars>>

\* one step run on its own from the script editor
RunStep(step) ==
  /\ pc = "idle"
  /\ pc' = step
  /\ chain' = FALSE
  /\ now' = 0
  /\ UNCHANGED <<sheet, driveVars, SCRIPT_START_TIME, passVars, halt, calls, serveVars, unitVars>>

\* A pass has ended (halt says how): its locals go out of scope; runAllSteps
\* goes on to the next step unless an exception or the host ended the pass.
Return ==
  /\ pc \in {"step1_return", "step2_return"}
  /\ pc' = IF pc = "step1_return" /\ chain /\ halt = "finished" THEN "step2" ELSE "idle"
  /\ chain' = (chain /\ pc' # "idle")
  /\ now' = IF pc' = "idle" THEN 0 ELSE now
  /\ SCRIPT_START_TIME' = 0
  /\ halt' = "none"
  /\ calls' = <<>>
  /\ ResetLocals
  /\ UNCHANGED <<sheet, driveVars, serveVars, unitVars>>

\* The host ends the invocation (its execution limit): what was written stays.
HostKill ==
  /\ pc \in {"step1_loop", "step2_loop", "step2_chunk", "step2_finalize", "step2_complete"}
  /\ pc' = IF pc = "step1_loop" THEN "step1_return" ELSE "step2_return"
  /\ halt' = "killed"
  /\ UNCHANGED <<sheet, driveVars, chain, now, SCRIPT_START_TIME, passVars, calls,
                 serveVars, unitVars>>

\* ---------------------------------------------------------------- step 0

\* mutant: every file of the folder gets a row, listed before or not
step0_addNewPdfs_NoCheck ==
  /\ pc = "step0"
  /\ \E files \in {o \in [1..Cardinality(pdfFolder \ deleted) -> pdfFolder \ deleted] :
                     \A a, b \in DOMAIN o : o[a] = o[b] => a = b} :
       sheet' = sheet \o [k \in 1..Len(files) |-> BlankRow(getUrl(files[k]))]
  /\ pc' = IF chain THEN "step1" ELSE "idle"
  /\ chain' = (chain /\ pc' # "idle")
  /\ UNCHANGED <<driveVars, now, SCRIPT_START_TIME, passVars, halt, calls, serveVars, unitVars>>

\* the orders in which an iterator may list the files of S
Orders(S) ==
  {o \in [1..Cardinality(S) -> S] : \A a, b \in 1..Cardinality(S) : o[a] = o[b] => a = b}

step0_addNewPdfs ==
  /\ pc = "step0"
  /\ LET existingUrls == {sheet[k].pdfUrl : k \in 1..Len(sheet)}
         fresh == {id \in pdfFolder \ deleted : getUrl(id) \notin existingUrls}
     IN \E files \in Orders(fresh) :
          sheet' = sheet \o [k \in 1..Len(files) |-> BlankRow(getUrl(files[k]))]
  /\ pc' = IF chain THEN "step1" ELSE "idle"
  /\ chain' = (chain /\ pc' # "idle")
  /\ UNCHANGED <<driveVars, now, SCRIPT_START_TIME, passVars, halt, calls, serveVars, unitVars>>

\* ---------------------------------------------------------------- step 1

\* ocr: whether the OCR conversion (Drive.Files.insert ... getText) succeeds
extractTextFromPdf(fileId, ocr) ==
  IF ~Accessible(fileId) THEN Null
  ELSE IF FileById(fileId).mimeType # PDF THEN Null
  ELSE IF ~ocr THEN Null
  ELSE chunksOf(DocText(fileId, fileId \in replaced))

step1_Begin ==
  /\ pc = "step1"
  /\ data' = sheet
  /\ i' = 1
  /\ pc' = "step1_loop"
  /\ UNCHANGED <<sheet, driveVars, chain, now, SCRIPT_START_TIME, textChunks, j,
                 audioFileObjects, allChunksProcessed, halt, calls, serveVars, unitVars>>

\* mutant: the analysis forgets the test for a recorded chunk count
step1_Eligible_AnyCount(row) == row.pdfUrl # <<>>

\* the rows step 1 analyzes
step1_Eligible(row) == row.pdfUrl # <<>> /\ row.chunkCount = 0

\* mutant: the analysis writes the count and leaves the flag as it is
step1_Row_CountOnly ==
  /\ pc = "step1_loop"
  /\ i < Len(data)
  /\ LET row == data[i + 1]
         fileId == getFileIdFromUrl[row.pdfUrl]
     IN IF ~step1_Eligible(row) \/ fileId = Null
        THEN /\ i' = i + 1
             /\ UNCHANGED <<sheet, pc, now, halt>>
        ELSE IF ~Accessible(fileId)
        THEN \* DriveApp.getFileById(fileId) throws: nothing catches it
             /\ pc' = "step1_return"
             /\ halt' = "exception"
             /\ UNCHANGED <<sheet, i, now>>
        ELSE \E ocr \in BOOLEAN, d \in Durations :
               /\ CanTake(d)
               /\ now' = now + d
               /\ LET chunks == extractTextFromPdf(fileId, ocr)
                  IN sheet' = IF Len(chunks) > 0
                              THEN [sheet EXCEPT ![i + 1].chunkCount = Len(chunks)]
                              ELSE sheet
               /\ i' = i + 1
               /\ UNCHANGED <<pc, halt>>
  /\ UNCHANGED <<driveVars, chain, SCRIPT_START_TIME, data, textChunks, j,
                 audioFileObjects, allChunksProcessed, calls, serveVars, unitVars>>

\* one iteration of the loop over the rows
step1_Row ==
  /\ pc = "step1_loop"
  /\ i < Len(data)
  /\ LET row == data[i + 1]
         fileId == getFileIdFromUrl[row.pdfUrl]
     IN IF ~step1_Eligible(row) \/ fileId = Null
        THEN /\ i' = i + 1
             /\ UNCHANGED <<sheet, pc, now, halt>>
        ELSE IF ~Accessible(fileId)
        THEN \* DriveApp.getFileById(fileId) throws: nothing catches it
             /\ pc' = "step1_return"
             /\ halt' = "exception"
             /\ UNCHANGED <<sheet, i, now>>
        ELSE \E ocr \in BOOLEAN, d \in Durations :
               /\ CanTake(d)
               /\ now' = now + d
               /\ LET chunks == extractTextFromPdf(fileId, ocr)
                  IN sheet' = IF Len(chunks) > 0
                              THEN [sheet EXCEPT ![i + 1].chunkCount = Len(chunks),
                                                 ![i + 1].isComplete = "FALSE"]
                              ELSE sheet
               /\ i' = i + 1
               /\ UNCHANGED <<pc, halt>>
  /\ UNCHANGED <<driveVars, chain, SCRIPT_START_TIME, data, textChunks, j,
                 audioFileObjects, allChunksProcessed, calls, serveVars, unitVars>>

step1_End ==
  /\ pc = "step1_loop"
  /\ i >= Len(data)
  /\ pc' = "step1_return"
  /\ halt' = "finished"
  /\ UNCHANGED <<sheet, driveVars, chain, now, SCRIPT_START_TIME, passVars, calls,
                 serveVars, unitVars>>

\* ---------------------------------------------------------------- step 2

\* what the synthesis request returns: a 200 response with inline audio, a 200
\* response without, another response code, or UrlFetchApp.fetch throwing
ProviderOutcomes == {"audio", "no audio", "non-200", "exception"}

step2_Begin ==
  /\ pc = "step2"
  /\ SCRIPT_START_TIME' = now
  /\ data' = sheet
  /\ i' = 1
  /\ pc' = "step2_loop"
  /\ UNCHANGED <<sheet, driveVars, chain, now, textChunks, j, audioFileObjects,
                 allChunksProcessed, halt, calls, serveVars, unitVars>>

\* the rows step 2 generates audio for
step2_Eligible(row) ==
  row.pdfUrl # <<>> /\ row.chunkCount > 0 /\ row.isComplete # "TRUE"

\* the file and the subfolder of the row in progress
\* the file of the row in progress
rowFileId == getFileIdFromUrl[data[i + 1].pdfUrl]

rowFileName == FileById(getFileIdFromUrl[data[i + 1].pdfUrl]).name

rowBaseName == baseNameOf[rowFileName]

totalChunks == data[i + 1].chunkCount

\* elapsedTime > SCRIPT_TIMEOUT_MS
OverBudget == now - SCRIPT_START_TIME > SCRIPT_TIMEOUT_MS

\* mutant: the time-budget check skips the row and goes on (continue for break)
step2_Break_Continue ==
  /\ i' = i + 1
  /\ UNCHANGED <<sheet, subfolders, pc, now, halt, textChunks, j, audioFileObjects,
                 allChunksProcessed>>

\* the break at the time-budget check
step2_Break ==
  /\ pc' = "step2_return"
  /\ halt' = "budget"
  /\ UNCHANGED <<sheet, subfolders, i, now, textChunks, j, audioFileObjects,
                 allChunksProcessed>>

\* mutant: a count that differs from the recorded one is written to the row
step2_Row_Recount ==
  /\ pc = "step2_loop"
  /\ i < Len(data)
  /\ LET row == data[i + 1]
         fileId == getFileIdFromUrl[row.pdfUrl]
     IN IF OverBudget
        THEN step2_Break
        ELSE IF ~step2_Eligible(row) \/ fileId = Null
        THEN /\ i' = i + 1
             /\ UNCHANGED <<sheet, subfolders, pc, now, halt, textChunks, j,
                            audioFileObjects, allChunksProcessed>>
        ELSE IF ~Accessible(fileId)
        THEN \* DriveApp.getFileById(fileId) throws: nothing catches it
             /\ pc' = "step2_return"
             /\ halt' = "exception"
             /\ UNCHANGED <<sheet, subfolders, i, now, textChunks, j,
                            audioFileObjects, allChunksProcessed>>
        ELSE \E folderOk \in BOOLEAN :
               IF ~folderOk
               THEN \* getOrCreateSubfolder caught an error and returned null
                    /\ i' = i + 1
                    /\ UNCHANGED <<sheet, subfolders, pc, now, halt, textChunks, j,
                                   audioFileObjects, allChunksProcessed>>
               ELSE \E ocr \in BOOLEAN, d \in Durations :
                      /\ CanTake(d)
                      /\ now' = now + d
                      /\ subfolders' = subfolders \cup {rowBaseName}
                      /\ LET chunks == extractTextFromPdf(fileId, ocr)
                         IN IF chunks = Null \/ Len(chunks) # row.chunkCount
                            THEN /\ i' = i + 1
                                 /\ sheet' = IF chunks = Null THEN sheet
                                             ELSE [sheet EXCEPT ![i + 1].chunkCount = Len(chunks)]
                                 /\ UNCHANGED <<pc, textChunks, j, audioFileObjects,
                                                allChunksProcessed>>
                            ELSE /\ textChunks' = chunks
                                 /\ j' = 0
                                 /\ audioFileObjects' = <<>>
                                 /\ allChunksProcessed' = TRUE
                                 /\ pc' = "step2_chunk"
                                 /\ UNCHANGED <<sheet, i>>
                      /\ UNCHANGED halt
  /\ UNCHANGED <<pdfFolder, deleted, replaced, artifacts, chain, SCRIPT_START_TIME,
                 data, calls, serveVars, unitVars>>

\* one iteration of the loop over the rows, up to the loop over the chunks
step2_Row ==
  /\ pc = "step2_loop"
  /\ i < Len(data)
  /\ LET row == data[i + 1]
         fileId == getFileIdFromUrl[row.pdfUrl]
     IN IF OverBudget
        THEN step2_Break
        ELSE IF ~step2_Eligible(row) \/ fileId = Null
        THEN /\ i' = i + 1
             /\ UNCHANGED <<sheet, subfolders, pc, now, halt, textChunks, j,
                            audioFileObjects, allChunksProcessed>>
        ELSE IF ~Accessible(fileId)
        THEN \* DriveApp.getFileById(fileId) throws: nothing catches it
             /\ pc' = "step2_return"
             /\ halt' = "exception"
             /\ UNCHANGED <<sheet, subfolders, i, now, textChunks, j,
                            audioFileObjects, allChunksProcessed>>
        ELSE \E folderOk \in BOOLEAN :
               IF ~folderOk
               THEN \* getOrCreateSubfolder caught an error and returned null
                    /\ i' = i + 1
                    /\ UNCHANGED <<sheet, subfolders, pc, now, halt, textChunks, j,
                                   audioFileObjects, allChunksProcessed>>
               ELSE \E ocr \in BOOLEAN, d \in Durations :
                      /\ CanTake(d)
                      /\ now' = now + d
                      /\ subfolders' = subfolders \cup {rowBaseName}
                      /\ LET chunks == extractTextFromPdf(fileId, ocr)
                         IN IF chunks = Null \/ Len(chunks) # row.chunkCount
                            THEN /\ i' = i + 1
                                 /\ UNCHANGED <<pc, textChunks, j, audioFileObjects,
                                                allChunksProcessed>>
                            ELSE /\ textChunks' = chunks
                                 /\ j' = 0
                                 /\ audioFileObjects' = <<>>
                                 /\ allChunksProcessed' = TRUE
                                 /\ pc' = "step2_chunk"
                                 /\ UNCHANGED i
                      /\ UNCHANGED <<sheet, halt>>
  /\ UNCHANGED <<pdfFolder, deleted, replaced, artifacts, chain, SCRIPT_START_TIME,
                 data, calls, serveVars, unitVars>>

\* folder.getFilesByName(name)
getFilesByName(folder, name) ==
  {a \in artifacts : a.folder = folder /\ a.name = name}

\* mutant: the lookups find nothing, every chunk is synthesized again
existingFiles_None(folder, fileName, chunkText, chunkIndex) == {}

\* mutant: the lookups are made in the reverse order
existingFiles_LegacyFirst(folder, fileName, chunkText, chunkIndex) ==
  LET newChunkName == generateSafeFilenameFromText(chunkText, chunkIndex)
      cleanLegacyName == baseNameOf[fileName] \o ChunkSuffix(chunkIndex + 1)
      legacyFullName == fileName \o ChunkSuffix(chunkIndex + 1)
  IN IF getFilesByName(folder, legacyFullName) # {}
     THEN getFilesByName(folder, legacyFullName)
     ELSE IF getFilesByName(folder, cleanLegacyName) # {}
     THEN getFilesByName(folder, cleanLegacyName)
     ELSE getFilesByName(folder, newChunkName)

\* the three lookups of one chunk, the first that finds a file winning
existingFiles(folder, fileName, chunkText, chunkIndex) ==
  LET newChunkName == generateSafeFilenameFromText(chunkText, chunkIndex)
      cleanLegacyName == baseNameOf[fileName] \o ChunkSuffix(chunkIndex + 1)
      legacyFullName == fileName \o ChunkSuffix(chunkIndex + 1)
  IN IF getFilesByName(folder, newChunkName) # {}
     THEN getFilesByName(folder, newChunkName)
     ELSE IF getFilesByName(folder, cleanLegacyName) # {}
     THEN getFilesByName(folder, cleanLegacyName)
     ELSE getFilesByName(folder, legacyFullName)

\* the file folder.createFile makes: Drive gives it a new id
createFileAs(id, folder, name, text, ordinal, source) ==
  [folder |-> folder, id |-> id, name |-> name, text |-> text, ordinal |-> ordinal,
   source |-> source]

createFile(folder, name, text, ordinal) ==
  createFileAs(Cardinality(artifacts) + 1, folder, name, text, ordinal, rowFileId)

\* the folder holds audio synthesized from this text for this ordinal
HasAudio(folder, text, ordinal) ==
  \E a \in artifacts : a.folder = folder /\ a.text = text /\ a.ordinal = ordinal

\* the end of one iteration of the loop over the chunks, the file resolved
NextChunk(audioFile) ==
  /\ audioFileObjects' = Append(audioFileObjects, audioFile)
  /\ j' = j + 1
  /\ pc' = IF j + 1 < totalChunks THEN "step2_chunk" ELSE "step2_finalize"
  /\ UNCHANGED allChunksProcessed

\* mutant: a failed chunk is skipped and the loop goes on to the next one
step2_Chunk_SkipAhead ==
  /\ pc = "step2_chunk"
  /\ LET chunkText == textChunks[j + 1]
         newChunkName == generateSafeFilenameFromText(chunkText, j)
         found == existingFiles(rowBaseName, rowFileName, chunkText, j)
     IN IF found # {}
        THEN /\ \E audioFile \in found : NextChunk(audioFile)
             /\ UNCHANGED <<artifacts, now, calls>>
        ELSE \E outcome \in ProviderOutcomes, d \in Durations :
               /\ CanTake(d)
               /\ now' = now + d
               /\ calls' = Append(calls, [row |-> i, chunk |-> j, name |-> newChunkName,
                                          ok |-> (outcome = "audio"),
                                          had |-> HasAudio(rowBaseName, chunkText, j)])
               /\ IF outcome = "audio"
                  THEN LET wavFile == createFile(rowBaseName, newChunkName, chunkText, j)
                       IN /\ artifacts' = artifacts \cup {wavFile}
                          /\ NextChunk(wavFile)
                  ELSE /\ allChunksProcessed' = FALSE
                       /\ j' = j + 1
                       /\ pc' = IF j + 1 < totalChunks THEN "step2_chunk"
                                ELSE "step2_finalize"
                       /\ UNCHANGED <<artifacts, audioFileObjects>>
  /\ UNCHANGED <<sheet, pdfFolder, deleted, replaced, subfolders, chain,
                 SCRIPT_START_TIME, data, i, textChunks, halt, serveVars, unitVars>>

\* mutant: after a failed call the loop stays at the chunk and calls again
step2_Chunk_Retry ==
  /\ pc = "step2_chunk"
  /\ LET chunkText == textChunks[j + 1]
         newChunkName == generateSafeFilenameFromText(chunkText, j)
         found == existingFiles(rowBaseName, rowFileName, chunkText, j)
     IN IF found # {}
        THEN /\ \E audioFile \in found : NextChunk(audioFile)
             /\ UNCHANGED <<artifacts, now, calls>>
        ELSE \E outcome \in ProviderOutcomes, d \in Durations :
               /\ CanTake(d)
               /\ now' = now + d
               /\ calls' = Append(calls, [row |-> i, chunk |-> j, name |-> newChunkName,
                                          ok |-> (outcome = "audio"),
                                          had |-> HasAudio(rowBaseName, chunkText, j)])
               /\ IF outcome = "audio"
                  THEN LET wavFile == createFile(rowBaseName, newChunkName, chunkText, j)
                       IN /\ artifacts' = artifacts \cup {wavFile}
                          /\ NextChunk(wavFile)
                  ELSE /\ Len(calls) < 2
                       /\ UNCHANGED <<artifacts, j, audioFileObjects, allChunksProcessed, pc>>
  /\ UNCHANGED <<sheet, pdfFolder, deleted, replaced, subfolders, chain,
                 SCRIPT_START_TIME, data, i, textChunks, halt, serveVars, unitVars>>

\* one iteration of the loop over the chunks
step2_Chunk ==
  /\ pc = "step2_chunk"
  /\ LET chunkText == textChunks[j + 1]
         newChunkName == generateSafeFilenameFromText(chunkText, j)
         found == existingFiles(rowBaseName, rowFileName, chunkText, j)
     IN IF found # {}
        THEN /\ \E audioFile \in found : NextChunk(audioFile)
             /\ UNCHANGED <<artifacts, now, calls>>
        ELSE \E outcome \in ProviderOutcomes, d \in Durations :
               /\ CanTake(d)
               /\ now' = now + d
               /\ calls' = Append(calls, [row |-> i, chunk |-> j, name |-> newChunkName,
                                          ok |-> (outcome = "audio"),
                                          had |-> HasAudio(rowBaseName, chunkText, j)])
               /\ IF outcome = "audio"
                  THEN LET wavFile == createFile(rowBaseName, newChunkName, chunkText, j)
                       IN /\ artifacts' = artifacts \cup {wavFile}
                          /\ NextChunk(wavFile)
                  ELSE /\ allChunksProcessed' = FALSE
                       /\ pc' = "step2_finalize"
                       /\ UNCHANGED <<artifacts, j, audioFileObjects>>
  /\ UNCHANGED <<sheet, pdfFolder, deleted, replaced, subfolders, chain,
                 SCRIPT_START_TIME, data, i, textChunks, halt, serveVars, unitVars>>

\* the array of {text, audioUrl, audioFilename} written to the sheet
audioDataForSheet ==
  [k \in 1..totalChunks |->
     [text |-> textChunks[k],
      audioUrl |-> audioUrlOf(audioFileObjects[k].id),
      audioFilename |-> audioFileObjects[k].name]]

\* leaving the row: its locals go out of scope
NextRow ==
  /\ i' = i + 1
  /\ textChunks' = <<>>
  /\ j' = 0
  /\ audioFileObjects' = <<>>
  /\ allChunksProcessed' = TRUE
  /\ pc' = "step2_loop"

\* mutant: the row is finalized with the files resolved so far, all or not
step2_Finalize_Partial ==
  /\ pc = "step2_finalize"
  /\ sheet' = [sheet EXCEPT ![i + 1].audioJson =
                 JSONstringify([k \in 1..Len(audioFileObjects) |->
                                  [text |-> textChunks[k],
                                   audioUrl |-> audioUrlOf(audioFileObjects[k].id),
                                   audioFilename |-> audioFileObjects[k].name]])]
  /\ pc' = "step2_complete"
  /\ UNCHANGED <<driveVars, chain, now, SCRIPT_START_TIME, passVars, halt, calls,
                 serveVars, unitVars>>

\* after the loop over the chunks: write the manifest, or leave the row
step2_Finalize ==
  /\ pc = "step2_finalize"
  /\ IF allChunksProcessed /\ Len(audioFileObjects) = totalChunks
     THEN /\ sheet' = [sheet EXCEPT ![i + 1].audioJson = JSONstringify(audioDataForSheet)]
          /\ pc' = "step2_complete"
          /\ UNCHANGED <<i, textChunks, j, audioFileObjects, allChunksProcessed>>
     ELSE /\ NextRow
          /\ UNCHANGED sheet
  /\ UNCHANGED <<driveVars, chain, now, SCRIPT_START_TIME, data, halt, calls, serveVars, unitVars>>

\* the second write of the finalization
step2_MarkComplete ==
  /\ pc = "step2_complete"
  /\ sheet' = [sheet EXCEPT ![i + 1].isComplete = "TRUE"]
  /\ NextRow
  /\ UNCHANGED <<driveVars, chain, now, SCRIPT_START_TIME, data, halt, calls, serveVars, unitVars>>

step2_End ==
  /\ pc = "step2_loop"
  /\ i >= Len(data)
  /\ pc' = "step2_return"
  /\ halt' = "finished"
  /\ UNCHANGED <<sheet, driveVars, chain, now, SCRIPT_START_TIME, passVars, calls,
                 serveVars, unitVars>>

\* --------------------------------------------------------------- serving

NotFound ==
  Failure("Assessment not found. Please check your email and password and try again.")

NotReady ==
  Failure("Audio for this assessment has not been generated yet. Please try again later.")

InvalidUrl == Failure("Invalid Google Drive URL in sheet.")

NotAPdf == Failure("Error: The file is not a PDF.")

ServerError == Failure("An unexpected server error occurred.")

\* mutant: the password is not compared
rowMatches_AnyPassword(row, email, password) ==
  LET studentEmailsRaw == toLowerCase[row.studentEmails]
      parts == splitChar[studentEmailsRaw, ","]
  IN /\ row.pdfUrl # <<>> /\ trim[row.password] # <<>> /\ studentEmailsRaw # <<>>
     /\ trim[toLowerCase[email]] \in {trim[parts[k]] : k \in 1..Len(parts)}

\* the condition of the loop body's if: the row's credentials match
rowMatches(row, email, password) ==
  LET sheetPassword == trim[row.password]
      studentEmailsRaw == toLowerCase[row.studentEmails]
      parts == splitChar[studentEmailsRaw, ","]
      studentEmails == {trim[parts[k]] : k \in 1..Len(parts)}
      cleanEmail == trim[toLowerCase[email]]
  IN /\ row.pdfUrl # <<>> /\ sheetPassword # <<>> /\ studentEmailsRaw # <<>>
     /\ cleanEmail \in studentEmails
     /\ password = sheetPassword

\* mutant: a known email with a wrong password gets a message of its own
getAssessmentPdf_WrongPassword(email, password) ==
  IF \E k \in 2..Len(sheet) : rowMatches(sheet[k], email, password)
  THEN LET row == sheet[SetMin({k \in 2..Len(sheet) : rowMatches(sheet[k], email, password)})]
       IN IF row.audioJson = <<>> THEN NotReady
          ELSE IF ~Accessible(getFileIdFromUrl[row.pdfUrl]) THEN ServerError
          ELSE [error |-> "",
                pdfData |-> <<"base64", getFileIdFromUrl[row.pdfUrl]>>,
                fileName |-> FileById(getFileIdFromUrl[row.pdfUrl]).name,
                audioChunks |-> JSONparse(row.audioJson)]
  ELSE IF \E k \in 2..Len(sheet) : rowMatches(sheet[k], email, trim[sheet[k].password])
  THEN Failure("Wrong password.")
  ELSE NotFound

getAssessmentPdf(email, password) ==
  LET hits == {k \in 2..Len(sheet) : rowMatches(sheet[k], email, password)}
  IN IF hits = {} THEN NotFound
     ELSE LET row == sheet[SetMin(hits)]
              fileId == getFileIdFromUrl[row.pdfUrl]
          IN IF row.audioJson = <<>> THEN NotReady
             ELSE IF fileId = Null THEN InvalidUrl
             ELSE IF ~Accessible(fileId) THEN ServerError
             ELSE IF FileById(fileId).mimeType # PDF THEN NotAPdf
             ELSE [error |-> "",
                   pdfData |-> <<"base64", fileId>>,
                   fileName |-> FileById(fileId).name,
                   audioChunks |-> JSONparse(row.audioJson)]

\* the identities and secrets a requester sends
Identities == {<<"a">>, <<" ", "A">>, <<"b">>, <<"c">>}

Secrets == {<<"p">>, <<" ", "p">>, <<"q">>}

\* one request of the web app
Fetch(email, password) ==
  /\ request' = [sent |-> TRUE, email |-> email, password |-> password]
  /\ response' = getAssessmentPdf(email, password)
  /\ UNCHANGED <<sheet, driveVars, pc, chain, now, SCRIPT_START_TIME, passVars, halt,
                 calls, unitVars>>

\* The audio step 2 makes for a.pdf, which a.PDF's row shares, and the rows
\* the two files have once generated.
ServedAudio ==
  LET chunks == chunksOf(DocText(F1, FALSE))
  IN {createFileAs(k, <<"a">>, generateSafeFilenameFromText(chunks[k], k - 1),
                   chunks[k], k - 1, F1) : k \in 1..Len(chunks)}

ServedManifest(id) ==
  LET chunks == chunksOf(DocText(id, FALSE))
  IN [k \in 1..Len(chunks) |->
        [text |-> chunks[k],
         audioUrl |-> audioUrlOf(k),
         audioFilename |-> generateSafeFilenameFromText(chunks[k], k - 1)]]

\* what the teacher typed into the PASSWORD and STUDENT_EMAILS columns
TypedPasswords == {<<"p">>, <<" ", "p">>, <<"q">>}

TypedEmails == {<<"a">>, <<"A", ",", " ", "b">>, <<"b">>}

\* the states of a discovered row: analyzed only, or generated and complete
ServedRows(id) ==
  {[pdfUrl |-> getUrl(id),
    chunkCount |-> Len(chunksOf(DocText(id, FALSE))),
    audioJson |-> IF done THEN JSONstringify(ServedManifest(id)) ELSE <<>>,
    isComplete |-> IF done THEN "TRUE" ELSE "FALSE",
    password |-> pw,
    studentEmails |-> emails] :
     done \in BOOLEAN, pw \in TypedPasswords, emails \in TypedEmails}

\* the ledgers served: the discovered PDFs in either order
ServedSheets ==
  LET one == {<<r>> : r \in ServedRows(F1) \cup ServedRows(F2)}
      two == {<<r1, r2>> : r1 \in ServedRows(F1), r2 \in ServedRows(F2)}
               \cup {<<r2, r1>> : r1 \in ServedRows(F1), r2 \in ServedRows(F2)}
  IN {<<HeaderRow>> \o rows : rows \in {<<>>} \cup one \cup two}

ServeInit ==
  /\ sheet \in ServedSheets
  /\ pdfFolder = {getFileIdFromUrl[sheet[k].pdfUrl] : k \in 2..Len(sheet)}
  /\ deleted \in SUBSET ({F1} \cap pdfFolder)
  /\ replaced = {}
  /\ artifacts = IF \E k \in 2..Len(sheet) : sheet[k].audioJson # <<>>
                 THEN ServedAudio ELSE {}
  /\ subfolders = {a.folder : a \in artifacts}
  /\ pc = "idle"
  /\ chain = FALSE
  /\ now = 0
  /\ SCRIPT_START_TIME = 0
  /\ data = <<>>
  /\ i = 0
  /\ textChunks = <<>>
  /\ j = 0
  /\ audioFileObjects = <<>>
  /\ allChunksProcessed = TRUE
  /\ halt = "none"
  /\ calls = <<>>
  /\ request = NoRequest
  /\ response = NoResponse
  /\ call = NoCall
  /\ returned = <<>>

ServeNext == \E email \in Identities, password \in Secrets : Fetch(email, password)

ServeSpec == ServeInit /\ [][ServeNext]_vars

\* ------------------------------------------- helpers called on their own

\* no invocation runs, the ledger and the folders are empty
UnitInit ==
  /\ sheet = <<HeaderRow>>
  /\ pdfFolder = {}
  /\ deleted = {}
  /\ replaced = {}
  /\ artifacts = {}
  /\ subfolders = {}
  /\ pc = "idle"
  /\ chain = FALSE
  /\ now = 0
  /\ SCRIPT_START_TIME = 0
  /\ data = <<>>
  /\ i = 0
  /\ textChunks = <<>>
  /\ j = 0
  /\ audioFileObjects = <<>>
  /\ allChunksProcessed = TRUE
  /\ halt = "none"
  /\ calls = <<>>
  /\ request = NoRequest
  /\ response = NoResponse
  /\ returned = <<>>

MaxWords == 7

MaxWordLength == 40

\* the chunk texts named: up to MaxWords words of one repeated character, each
\* up to MaxWordLength characters long
NameTexts ==
  {join[[w \in 1..words |-> [k \in 1..len |-> c]], <<" ">>] :
     words \in 1..MaxWords, len \in 1..MaxWordLength, c \in {"a", "_", "-", "!"}}

NameInit ==
  /\ UnitInit
  /\ call \in [made : {FALSE}, text : NameTexts, chunkIndex : {0, 9, 99}]

\* newChunkName = generateSafeFilenameFromText(chunkText, j)
NameCall ==
  /\ ~call.made
  /\ call' = [call EXCEPT !.made = TRUE]
  /\ returned' = generateSafeFilenameFromText(call.text, call.chunkIndex)
  /\ UNCHANGED <<sheet, driveVars, pc, chain, now, SCRIPT_START_TIME, passVars, halt,
                 calls, serveVars>>

NameSpec == NameInit /\ [][NameCall]_vars

\* ------------------------------------------------------------- createWavBlob

\* new ArrayBuffer(n) seen through a DataView: n bytes at offsets 0..n-1
ArrayBuffer(n) == [k \in 0..(n - 1) |-> 0]

setUint8(view, byteOffset, value) == [view EXCEPT ![byteOffset] = value % 256]

\* mutant: the most significant byte first
setUint16_BigEndian(view, byteOffset, value) ==
  [view EXCEPT ![byteOffset] = (value \div 256) % 256,
               ![byteOffset + 1] = value % 256]

\* view.setUint16(byteOffset, value, true): the two low bytes of the value,
\* the least significant first
setUint16(view, byteOffset, value) ==
  [view EXCEPT ![byteOffset] = value % 256,
               ![byteOffset + 1] = (value \div 256) % 256]

\* view.setUint32(byteOffset, value, true): the four low bytes of the value,
\* the least significant first
setUint32(view, byteOffset, value) ==
  [view EXCEPT ![byteOffset] = value % 256,
               ![byteOffset + 1] = (value \div 256) % 256,
               ![byteOffset + 2] = (value \div (256 * 256)) % 256,
               ![byteOffset + 3] = (value \div (256 * 256 * 256)) % 256]

\* String.prototype.charCodeAt for the characters of the four tags
charCodeAt(c) ==
  CASE c = "R" -> 82 [] c = "I" -> 73 [] c = "F" -> 70 [] c = "W" -> 87
    [] c = "A" -> 65 [] c = "V" -> 86 [] c = "E" -> 69 [] c = "f" -> 102
    [] c = "m" -> 109 [] c = "t" -> 116 [] c = " " -> 32 [] c = "d" -> 100
    [] c = "a" -> 97

RECURSIVE writeString(_, _, _)
writeString(view, offset, string) ==
  IF string = <<>> THEN view
  ELSE writeString(setUint8(view, offset, charCodeAt(Head(string))),
                   offset + 1, Tail(string))

\* Utilities.newBlob(bytes, MimeType.WAV): each number is stored as one byte
newBlob(bytes) == [k \in 1..Len(bytes) |-> bytes[k] % 256]

createWavBlob(pcmData) ==
  LET sampleRate == 24000
      numChannels == 1
      bitsPerSample == 16
      byteRate == (sampleRate * numChannels * bitsPerSample) \div 8
      blockAlign == (numChannels * bitsPerSample) \div 8
      dataSize == Len(pcmData)
      fileSize == 36 + dataSize
      v0 == writeString(ArrayBuffer(44), 0, <<"R", "I", "F", "F">>)
      v1 == setUint32(v0, 4, fileSize)
      v2 == writeString(v1, 8, <<"W", "A", "V", "E">>)
      v3 == writeString(v2, 12, <<"f", "m", "t", " ">>)
      v4 == setUint32(v3, 16, 16)
      v5 == setUint16(v4, 20, 1)
      v6 == setUint16(v5, 22, numChannels)
      v7 == setUint32(v6, 24, sampleRate)
      v8 == setUint32(v7, 28, byteRate)
      v9 == setUint16(v8, 32, blockAlign)
      v10 == setUint16(v9, 34, bitsPerSample)
      v11 == writeString(v10, 36, <<"d", "a", "t", "a">>)
      view == setUint32(v11, 40, dataSize)
      headerBytes == [k \in 1..44 |-> view[k - 1]]
      wavBytes == headerBytes \o pcmData
  IN newBlob(wavBytes)

MaxPcmLength == 4

\* the decoded audio: Byte[] of Apps Script, each byte in -128..127
PcmInputs ==
  UNION {[1..n -> {-128, -1, 0, 127}] : n \in 0..MaxPcmLength}

WavInit ==
  /\ UnitInit
  /\ call \in [made : {FALSE}, pcmData : PcmInputs]

\* wavBlob = createWavBlob(decodedData)
WavCall ==
  /\ ~call.made
  /\ call' = [call EXCEPT !.made = TRUE]
  /\ returned' = createWavBlob(call.pcmData)
  /\ UNCHANGED <<sheet, driveVars, pc, chain, now, SCRIPT_START_TIME, passVars, halt,
                 calls, serveVars>>

WavSpec == WavInit /\ [][WavCall]_vars

\* ------------------------------------------------------------ the system

Environment ==
  \/ \E id \in FileIds : UploadPdf(id)
  \/ \E id \in FileIds : DeleteFile(id)
  \/ \E id \in FileIds : ReplaceContent(id)

Program ==
  \/ runAllSteps
  \/ \E step \in {"step0", "step1", "step2"} : RunStep(step)
  \/ step0_addNewPdfs
  \/ step1_Begin
  \/ step1_Row
  \/ step1_End
  \/ step2_Begin
  \/ step2_Row
  \/ step2_Chunk
  \/ step2_Finalize
  \/ step2_MarkComplete
  \/ step2_End
  \/ Return
  \/ HostKill

Next == Environment \/ Program

Spec == Init /\ [][Next]_vars

\* ------------------------------------------------- repeated invocations

\* 'Run All Steps' is run again and again, one invocation at a time; no file
\* is deleted or replaced and the host ends no invocation.
Pipeline ==
  \/ runAllSteps
  \/ step0_addNewPdfs
  \/ step1_Begin
  \/ step1_Row
  \/ step1_End
  \/ step2_Begin
  \/ step2_Row
  \/ step2_Chunk
  \/ step2_Finalize
  \/ step2_MarkComplete
  \/ step2_End
  \/ Return

LiveNext == (\E id \in FileIds : UploadPdf(id)) \/ Pipeline

\* the external calls made for the file succeed: step 1's extraction, step 2's
\* extraction, a synthesis call
AnalysisSucceeds(id) == step1_Row /\ rowFileId = id /\ sheet' # sheet

ExtractionSucceeds(id) == step2_Row /\ rowFileId = id /\ pc' = "step2_chunk"

SynthesisSucceeds(id) == step2_Chunk /\ rowFileId = id /\ j' = j + 1

\* the file whose calls succeed in the end, whatever the calls for the other
\* files do
Healthy == F2

\* The pipeline keeps running, and a call for the healthy file that is made
\* again and again succeeds in the end.
LiveSpec ==
  /\ Init
  /\ [][LiveNext]_vars
  /\ WF_vars(Pipeline)
  /\ SF_vars(AnalysisSucceeds(Healthy))
  /\ SF_vars(ExtractionSucceeds(Healthy))
  /\ SF_vars(SynthesisSucceeds(Healthy))

\* ------------------------------------------------------------ properties

DataRows == 2..Len(sheet)

HasManifest(row) == row.audioJson # <<>>

\* the ledger fields of row k are as they were when the pass read the sheet
AsRead(k) ==
  /\ sheet[k].chunkCount = data[k].chunkCount
  /\ sheet[k].audioJson = data[k].audioJson
  /\ sheet[k].isComplete = data[k].isComplete

\* C1: every row with is_complete = true has a manifest of exactly chunk_count
\* entries, each with the locator of an audio file that exists.
C1_CompleteHasFullManifest ==
  \A k \in DataRows :
    sheet[k].isComplete = "TRUE" =>
      /\ HasManifest(sheet[k])
      /\ Len(JSONparse(sheet[k].audioJson)) = sheet[k].chunkCount
      /\ \A n \in 1..Len(JSONparse(sheet[k].audioJson)) :
           \E a \in artifacts : JSONparse(sheet[k].audioJson)[n].audioUrl = audioUrlOf(a.id)

\* a row of two chunks is complete
C1_Witness ==
  \E k \in DataRows : sheet[k].isComplete = "TRUE" /\ sheet[k].chunkCount = 2

\* C2: a row for which a synthesis call of this generation pass failed is not
\* complete and its manifest and flag are as they were when the pass began,
\* however many of its chunks were resolved before the failure.
C2_AllOrNothing ==
  \A n \in 1..Len(calls) :
    ~calls[n].ok =>
      /\ sheet[calls[n].row + 1].isComplete # "TRUE"
      /\ sheet[calls[n].row + 1].audioJson = data[calls[n].row + 1].audioJson
      /\ sheet[calls[n].row + 1].isComplete = data[calls[n].row + 1].isComplete

\* a generation pass ran to its end after the second chunk of a row failed
C2_Witness ==
  /\ pc = "step2_return"
  /\ halt = "finished"
  /\ \E n \in 1..Len(calls) : ~calls[n].ok /\ calls[n].chunk = 1

\* C3: a generation pass leaves every manifest it found in the sheet
\* identical, calls the provider for no chunk whose audio the folder already
\* holds, and makes no file that duplicates another of its folder, by name or
\* by the chunk it was made from.
C3_Idempotent ==
  /\ \A k \in 2..Len(data) : HasManifest(data[k]) => sheet[k].audioJson = data[k].audioJson
  /\ \A n \in 1..Len(calls) : ~calls[n].had
  /\ \A a \in artifacts \ LegacyFiles :
       \A b \in artifacts \ {a} :
         a.folder = b.folder =>
           /\ a.name # b.name
           /\ ~(a.text = b.text /\ a.ordinal = b.ordinal)

\* a later pass resolves a chunk to the file an earlier pass made, calling
\* the provider for nothing
C3_Witness ==
  /\ pc = "step2_chunk"
  /\ j = 1
  /\ audioFileObjects[1] \notin LegacyFiles
  /\ calls = <<>>

RowOf(id) == {k \in DataRows : sheet[k].pdfUrl = getUrl(id)}

\* C4: under repeated invocations the row of a discovered file whose calls
\* succeed in the end becomes complete, whatever the rows before it do.
C4_EventualCompletion ==
  (RowOf(Healthy) # {}) ~> (\E k \in RowOf(Healthy) : sheet[k].isComplete = "TRUE")

\* C5: a recorded chunk_count is never rewritten, and a complete row keeps
\* its flag and its manifest.
C5_Monotonic ==
  [][\A k \in DataRows :
       /\ sheet[k].chunkCount # 0 => sheet'[k].chunkCount = sheet[k].chunkCount
       /\ sheet[k].isComplete = "TRUE" =>
            /\ sheet'[k].isComplete = "TRUE"
            /\ sheet'[k].audioJson = sheet[k].audioJson]_vars

\* an analysis pass went over a complete row
C5_Witness ==
  /\ pc = "step1_return"
  /\ halt = "finished"
  /\ \E k \in 2..Len(data) : data[k].isComplete = "TRUE"

\* C6: no fault of a row ends a pass: a pass that ends before its last row
\* was stopped by the time budget (or by the host).
C6_OnlyBudgetEndsPassEarly ==
  (pc \in {"step1_return", "step2_return"} /\ halt \notin {"budget", "killed"})
    => i >= Len(data)

\* C7: when the check before a row finds the ceiling exceeded the pass ends
\* there, changing nothing; the rows from that one on are as the pass read
\* them, no call was made for them, and no row is left half done.
C7_BudgetStop ==
  /\ [](pc = "step2_return" /\ halt = "budget" =>
          /\ i < Len(data)
          /\ textChunks = <<>> /\ audioFileObjects = <<>>
          /\ \A k \in (i + 1)..Len(data) : AsRead(k)
          /\ \A n \in 1..Len(calls) : calls[n].row < i)
  /\ [][(/\ pc = "step2_loop"
         /\ i < Len(data)
         /\ now - SCRIPT_START_TIME > 5 * 60 * 1000
         /\ <<pc, i>>' # <<pc, i>>)
        => /\ pc' = "step2_return"
           /\ UNCHANGED <<sheet, artifacts, subfolders, calls, i>>]_vars

\* the budget stopped a pass before an eligible row, after work on another
C7_Witness ==
  /\ pc = "step2_return"
  /\ halt = "budget"
  /\ calls # <<>>
  /\ step2_Eligible(data[i + 1])

\* C8: when no invocation runs, a row has a manifest iff it is complete.
C8_ManifestIffComplete ==
  pc = "idle" => \A k \in DataRows : HasManifest(sheet[k]) <=> sheet[k].isComplete = "TRUE"

\* the authorized identities of a row, as the list cell gives them
AuthorizedIdentities(row) ==
  LET entries == splitChar[toLowerCase[row.studentEmails], ","]
  IN {trim[entries[k]] : k \in 1..Len(entries)}

\* the identity a requester gave, normalized
Normalized(email) == trim[toLowerCase[email]]

\* the rows whose secret is the given one exactly and whose list holds the
\* requester's identity
ExactMatches ==
  {k \in DataRows : /\ sheet[k].password = request.password
                    /\ Normalized(request.email) \in AuthorizedIdentities(sheet[k])}

\* the same, the secret of the row read without the whitespace around it
TrimmedMatches ==
  {k \in DataRows : /\ trim[sheet[k].password] = request.password
                    /\ Normalized(request.email) \in AuthorizedIdentities(sheet[k])}

Succeeded == request.sent /\ response.error = ""

UnknownIdentity ==
  \A k \in DataRows : Normalized(request.email) \notin AuthorizedIdentities(sheet[k])

\* the identity is on the list of a row, and the secret is that of no such row
WrongSecret ==
  /\ \E k \in DataRows : Normalized(request.email) \in AuthorizedIdentities(sheet[k])
  /\ TrimmedMatches = {}

\* C10: a fetch with an identity no row authorizes and a fetch with an
\* authorized identity and a wrong secret get the same not-found response.
C10_CredentialFaultsAlike ==
  (request.sent /\ (UnknownIdentity \/ WrongSecret)) => response = NotFound

\* an authorized identity sent a wrong secret to a ledger of two rows
C10_Witness ==
  /\ request.sent
  /\ WrongSecret
  /\ Len(sheet) = 3
  /\ response = NotFound

\* C11: no two rows of the ledger have the same source locator, and a
\* discovery pass that finds a row for every file of the folder appends none.
C11_DiscoveryUnique ==
  /\ [](\A a, b \in DataRows : sheet[a].pdfUrl = sheet[b].pdfUrl => a = b)
  /\ [][(/\ pc = "step0"
         /\ pc' # "step0"
         /\ \A id \in pdfFolder \ deleted : RowOf(id) # {})
        => sheet' = sheet]_vars

\* 'Run All Steps' has just discovered a folder of two files whose rows an
\* earlier invocation had made and analyzed
C11_Witness ==
  /\ pc = "step1"
  /\ chain
  /\ Cardinality(pdfFolder) = 2
  /\ Len(sheet) = 3
  /\ \A k \in DataRows : sheet[k].chunkCount # 0

\* whether s ends with the sequence t
EndsWith(s, t) == Len(s) >= Len(t) /\ SubSeq(s, Len(s) - Len(t) + 1, Len(s)) = t

\* C12: a canonical name has at most 250 characters, ends with the whole
\* suffix -chunk-<N+1>.wav, and has only characters of [A-Za-z0-9_-] before
\* the extension.
C12_CanonicalName ==
  call.made =>
    /\ Len(returned) <= 250
    /\ EndsWith(returned, ChunkSuffix(call.chunkIndex + 1))
    /\ \A k \in 1..(Len(returned) - 4) : returned[k] \in IdChar

\* C12, the part of it that holds: the length and the characters
C12_LengthAndCharacters ==
  call.made =>
    /\ Len(returned) <= 250
    /\ \A k \in 1..Len(returned) : returned[k] \in IdChar \cup {"."}

\* a name was cut at 250 characters
C12_Witness ==
  /\ call.made
  /\ Len(returned) = 250
  /\ Len(call.text) > 250

\* the unsigned little-endian number in the n bytes after the first offset
\* bytes of a file
UintAt(bytes, offset, n) ==
  bytes[offset + 1]
    + 256 * (IF n = 2 THEN bytes[offset + 2]
             ELSE bytes[offset + 2] + 256 * (bytes[offset + 3] + 256 * bytes[offset + 4]))

\* C13: the encoding of M bytes of PCM has 44 + M bytes, the last M of them
\* the input, and its header decodes to format 1, 1 channel, 24000 Hz, byte
\* rate 48000, block align 2, 16 bits, data size M and total size 36 + M.
C13_WavContainer ==
  call.made =>
    LET M == Len(call.pcmData)
    IN /\ Len(returned) = 44 + M
       /\ \A k \in 1..M : returned[44 + k] = call.pcmData[k] % 256
       /\ \A k \in 1..Len(returned) : returned[k] \in 0..255
       /\ UintAt(returned, 20, 2) = 1
       /\ UintAt(returned, 22, 2) = 1
       /\ UintAt(returned, 24, 4) = 24000
       /\ UintAt(returned, 28, 4) = 48000
       /\ UintAt(returned, 32, 2) = 2
       /\ UintAt(returned, 34, 2) = 16
       /\ UintAt(returned, 40, 4) = M
       /\ UintAt(returned, 4, 4) = 36 + M

\* audio of the longest input was encoded, with a byte of each sign
C13_Witness ==
  /\ call.made
  /\ Len(call.pcmData) = MaxPcmLength
  /\ \E k \in 1..MaxPcmLength : call.pcmData[k] < 0
  /\ \E k \in 1..MaxPcmLength : call.pcmData[k] > 0
  /\ Len(returned) = 44 + MaxPcmLength

\* the files of the row's folder under the three names of the chunk in
\* progress: the canonical name, the stem legacy name, the full legacy name
NameTiers ==
  LET named(name) == {a \in artifacts : a.folder = rowBaseName /\ a.name = name}
  IN << named(generateSafeFilenameFromText(textChunks[j + 1], j)),
        named(rowBaseName \o ChunkSuffix(j + 1)),
        named(rowFileName \o ChunkSuffix(j + 1)) >>

\* a step of the loop over the chunks
ChunkStep ==
  /\ pc = "step2_chunk"
  /\ pc' \in {"step2_chunk", "step2_finalize"}
  /\ <<pc, j>>' # <<pc, j>>

\* C14: the provider is called for a chunk only when the folder has no file
\* under any of the chunk's three names; when it has, the file used is one of
\* the first name, in the order canonical, stem legacy, full legacy, that has
\* a file, and no file is made.
C14_NoResynthesis ==
  [][ChunkStep =>
       LET tiers == NameTiers
           hits == {t \in 1..3 : tiers[t] # {}}
       IN /\ calls' # calls => hits = {}
          /\ hits # {} =>
               /\ calls' = calls
               /\ artifacts' = artifacts
               /\ Len(audioFileObjects') = Len(audioFileObjects) + 1
               /\ audioFileObjects'[Len(audioFileObjects')] \in tiers[SetMin(hits)]]_vars

\* with files under both legacy names in the folder and none under the
\* canonical name, the first chunk was resolved to the stem legacy file
C14_Witness ==
  /\ pc = "step2_chunk"
  /\ j = 1
  /\ calls = <<>>
  /\ LegacyFiles \subseteq artifacts
  /\ audioFileObjects[1] \in LegacyFiles
  /\ audioFileObjects[1].name = <<"a">> \o ChunkSuffix(1)
  /\ \A a \in artifacts : a.name # generateSafeFilenameFromText(textChunks[1], 0)

\* the row's folder has a file under one of the three names of chunk n of
\* the row in progress
ChunkHasFile(n) ==
  \E a \in artifacts :
    /\ a.folder = rowBaseName
    /\ a.name \in {generateSafeFilenameFromText(textChunks[n + 1], n),
                   rowBaseName \o ChunkSuffix(n + 1),
                   rowFileName \o ChunkSuffix(n + 1)}

\* C15: a synthesis call for chunk j of a row is made only when every chunk
\* before j of the row has a file in the row's folder, and no folder holds a
\* generated file of an ordinal while it holds none of an earlier ordinal.
C15_IndexOrder ==
  /\ [](\A a \in artifacts \ LegacyFiles :
          \A n \in 0..(a.ordinal - 1) :
            \E b \in artifacts : b.folder = a.folder /\ b.ordinal = n)
  /\ [][(ChunkStep /\ calls' # calls) => \A n \in 0..(j - 1) : ChunkHasFile(n)]_vars

\* the provider was called for the second chunk of a row, and succeeded
C15_Witness ==
  /\ pc = "step2_finalize"
  /\ \E n \in 1..Len(calls) : calls[n].chunk = 1 /\ calls[n].ok

\* C16: the files synthesized into one folder were all made for one and the
\* same document, and every synthesized file resolved for the row in progress
\* was made for that row's document.
C16_ContainerIsolation ==
  LET made == artifacts \ LegacyFiles
  IN /\ \A a, b \in made : a.folder = b.folder => a.source = b.source
     /\ pc \in {"step2_chunk", "step2_finalize", "step2_complete"} =>
          \A n \in 1..Len(audioFileObjects) :
            audioFileObjects[n] \in made => audioFileObjects[n].source = rowFileId

\* C17: in every complete row each manifest entry references a file that was
\* synthesized from the text the entry carries, or a legacy-named file of
\* that ordinal; and the manifest being written carries the row's chunks.
C17_NeverWrongContent ==
  /\ \A k \in DataRows :
       sheet[k].isComplete = "TRUE" /\ HasManifest(sheet[k]) =>
         LET manifest == JSONparse(sheet[k].audioJson)
         IN \A n \in 1..Len(manifest) :
              \A a \in artifacts :
                manifest[n].audioUrl = audioUrlOf(a.id) =>
                  \/ a.text = manifest[n].text
                  \/ a \in LegacyFiles /\ a.ordinal = n - 1
  /\ pc = "step2_complete" =>
       LET manifest == JSONparse(sheet[i + 1].audioJson)
       IN /\ Len(manifest) = Len(textChunks)
          /\ \A n \in 1..Len(manifest) : manifest[n].text = textChunks[n]

\* the generation pass is at a row it will open and re-chunk, and takes a step
\* (the host does not end the invocation here)
RechunkStep ==
  /\ pc = "step2_loop"
  /\ i < Len(data)
  /\ ~OverBudget
  /\ step2_Eligible(data[i + 1])
  /\ rowFileId # Null
  /\ Accessible(rowFileId)
  /\ <<pc, i>>' # <<pc, i>>
  /\ halt' = halt

\* the document of the row in progress no longer has the recorded number of chunks
StaleCount ==
  Len(chunksOf(DocText(rowFileId, rowFileId \in replaced))) # data[i + 1].chunkCount

\* C18: a row whose document no longer gives the recorded number of chunks,
\* or whose text cannot be extracted, is only passed over: no chunk of it is
\* looked up or synthesized, no file is made, the sheet stays as it is and the
\* loop goes on with the next row; a synthesis call is made only for a row
\* whose chunks were counted anew and are as many as recorded.
C18_FaultSkipsOnly ==
  /\ [][RechunkStep =>
          /\ StaleCount => pc' # "step2_chunk"
          /\ pc' # "step2_chunk" =>
               /\ pc' = "step2_loop"
               /\ i' = i + 1
               /\ sheet' = sheet
               /\ calls' = calls
               /\ artifacts' = artifacts]_vars
  /\ [][Len(calls') > Len(calls) \/ artifacts' # artifacts =>
          /\ Len(textChunks) = data[i + 1].chunkCount
          /\ sheet'[i + 1].chunkCount = data[i + 1].chunkCount]_vars

\* the pass went past a row of two recorded chunks whose document has one
\* chunk since its content was replaced, and touched nothing of it
C18_Witness ==
  /\ pc = "step2_loop"
  /\ i >= 2
  /\ halt = "none"
  /\ step2_Eligible(data[i])
  /\ data[i].chunkCount = 2
  /\ getFileIdFromUrl[data[i].pdfUrl] \in replaced \ deleted
  /\ sheet[i] = data[i]
  /\ calls = <<>>

\* the analysis pass takes a step at a row (the host does not end it here)
AnalysisStep ==
  /\ pc = "step1_loop"
  /\ i < Len(data)
  /\ <<pc, i>>' # <<pc, i>>
  /\ halt' # "killed"

\* the row 'written' is the row 'read' with a count of one chunk at least and
\* is_complete = false
Counted(read, written) ==
  /\ written.chunkCount >= 1
  /\ written = [read EXCEPT !.chunkCount = written.chunkCount, !.isComplete = "FALSE"]

\* the count written is the number of chunks of the document of the row
Analyzed(read, written) ==
  /\ Counted(read, written)
  /\ written.chunkCount = Len(extractTextFromPdf(getFileIdFromUrl[read.pdfUrl], TRUE))

\* C19: a step of the analysis pass changes no row but the one it is at, and
\* that one only if it has a source and no chunk count: then the row either
\* gets the number of chunks of its document, one at least, together with
\* is_complete = false, or stays as it is and eligible; and so the rows stand
\* when the pass has finished.
C19_AnalysisPass ==
  /\ [][AnalysisStep =>
          /\ \A k \in DataRows \ {i + 1} : sheet'[k] = sheet[k]
          /\ IF step1_Eligible(data[i + 1])
             THEN \/ sheet'[i + 1] = sheet[i + 1] /\ step1_Eligible(sheet'[i + 1])
                  \/ Analyzed(data[i + 1], sheet'[i + 1])
             ELSE sheet'[i + 1] = sheet[i + 1]]_vars
  /\ [](pc = "step1_return" /\ halt = "finished" =>
          \A k \in 2..Len(data) :
            IF step1_Eligible(data[k])
            THEN \/ sheet[k] = data[k] /\ step1_Eligible(sheet[k])
                 \/ Counted(data[k], sheet[k])
            ELSE sheet[k] = data[k])

\* a finished analysis pass counted the two chunks of one row, left a row
\* without extractable text as it was, and passed over a row already counted
C19_Witness ==
  /\ pc = "step1_return"
  /\ halt = "finished"
  /\ \E k \in 2..Len(data) : data[k].chunkCount = 0 /\ sheet[k].chunkCount = 2
  /\ \E k \in 2..Len(data) : step1_Eligible(data[k]) /\ sheet[k] = data[k]
  /\ \E k \in 2..Len(data) : data[k].chunkCount > 0

\* a step of the chunk loop that called the provider and got no file
FailedCall ==
  /\ ChunkStep
  /\ Len(calls') = Len(calls) + 1
  /\ ~calls'[Len(calls')].ok

\* C20: a synthesis call that fails makes no file, resolves nothing for the
\* row and ends the row's chunk loop; and no chunk of a row is the subject of
\* two calls of one invocation.
C20_FailureCreatesNothing ==
  /\ [][FailedCall =>
          /\ artifacts' = artifacts
          /\ audioFileObjects' = audioFileObjects
          /\ allChunksProcessed' = FALSE
          /\ pc' = "step2_finalize"]_vars
  /\ [][Len(calls') > Len(calls) =>
          /\ Len(calls') = Len(calls) + 1
          /\ \A n \in 1..Len(calls) :
               <<calls[n].row, calls[n].chunk>> #
               <<calls'[Len(calls')].row, calls'[Len(calls')].chunk>>]_vars

\* the call for the second chunk of a row failed after the call for the first
\* had made a file, and the pass went on to its end
C20_Witness ==
  /\ pc = "step2_return"
  /\ halt = "finished"
  /\ Len(calls) = 2
  /\ calls[1].ok /\ ~calls[2].ok
  /\ calls[1].row = calls[2].row
  /\ Cardinality(artifacts) = 1

\* the analysis pass starts the work on a row: it opens the file and extracts
AnalysisRowStarted ==
  /\ AnalysisStep
  /\ step1_Eligible(data[i + 1])
  /\ rowFileId # Null
  /\ Accessible(rowFileId)

\* C21: in an invocation of runAllSteps no row is started, by the analysis
\* pass or by the generation pass, when more than SCRIPT_TIMEOUT_MS have gone
\* by since the invocation began.
C21_BudgetFromInvocationStart ==
  [][chain /\ (AnalysisRowStarted \/ RechunkStep) => now <= SCRIPT_TIMEOUT_MS]_vars

\* the same for the rows of the generation pass alone
C21_GenerationRows ==
  [][chain /\ RechunkStep => now <= SCRIPT_TIMEOUT_MS]_vars

====
